---- MODULE Spec2Model ----
(***************************************************************************)
(* Model of bin/new-ex.py: the registry parser (parse_questions_yaml), the *)
(* collision-free slug suggestion and the reject paths of create_exercise. *)
(* Text is modelled as sequences of one-character strings, so that strip,  *)
(* split, slicing and prefix tests are computed as the Python code does.   *)
(***************************************************************************)
EXTENDS Integers, Sequences, FiniteSets, TLC

\* ------------------------------------------------------------------ bounds
\* longest document over all of Lines
MaxLines == 4
\* longest document over CoreLines only
MaxCoreLines == 5
\* largest number of entries under the exercises root when a suggestion is
\* asked for
MaxExisting == 3
\* number of invocations of create_exercise in a run
MaxCalls == 2
\* longest slug, over SlugChars, that a package segment is derived from
MaxSlugLen == 3

\* ------------------------------------------------------- string primitives
\* characters removed by str.strip() with no argument
Whitespace == {" ", "\n", "\t"}

\* s[n:]
Drop(s, n) == IF n >= Len(s) THEN <<>> ELSE SubSeq(s, n + 1, Len(s))

\* s[:n]
Take(s, n) == IF n >= Len(s) THEN s ELSE SubSeq(s, 1, n)

\* s[-1]
Last(s) == s[Len(s)]

\* s.startswith(p)
StartsWith(s, p) == Len(s) >= Len(p) /\ SubSeq(s, 1, Len(p)) = p

\* c in s
Contains(s, c) == \E i \in 1..Len(s) : s[i] = c

RECURSIVE LStripSet(_, _)
\* s.lstrip(chars)
LStripSet(s, chars) ==
    IF s # <<>> /\ s[1] \in chars THEN LStripSet(Tail(s), chars) ELSE s

RECURSIVE RStripSet(_, _)
\* s.rstrip(chars)
RStripSet(s, chars) ==
    IF s # <<>> /\ s[Len(s)] \in chars
    THEN RStripSet(SubSeq(s, 1, Len(s) - 1), chars)
    ELSE s

\* s.lstrip()
LStrip(s) == LStripSet(s, Whitespace)

\* s.strip()
Strip(s) == RStripSet(LStripSet(s, Whitespace), Whitespace)

RECURSIVE IndexOf(_, _, _)
\* s.find(c) from position i (1-based), 0 when absent
IndexOf(s, c, i) ==
    IF i > Len(s) THEN 0
    ELSE IF s[i] = c THEN i
    ELSE IndexOf(s, c, i + 1)

\* s.split(c, 1) for a string that contains c
SplitFirst(s, c) ==
    LET p == IndexOf(s, c, 1)
    IN  <<SubSeq(s, 1, p - 1), Drop(s, p)>>

RECURSIVE SplitAll(_, _)
\* s.split(c)
SplitAll(s, c) ==
    LET p == IndexOf(s, c, 1)
    IN  IF p = 0 THEN <<s>>
        ELSE <<SubSeq(s, 1, p - 1)>> \o SplitAll(Drop(s, p), c)

RECURSIVE Join(_, _)
\* sep.join(parts)
Join(parts, sep) ==
    IF parts = <<>> THEN <<>>
    ELSE IF Len(parts) = 1 THEN parts[1]
    ELSE parts[1] \o sep \o Join(Tail(parts), sep)

\* ----------------------------------------------------------------- values
\* a str value and a list value of a Dict[str, object]
Scalar(s) == [t |-> "Scalar", v |-> s]
List(l) == [t |-> "List", v |-> l]

EmptyDict == [k \in {} |-> Scalar(<<>>)]

\* d[k] = v
Put(d, k, v) == [x \in (DOMAIN d) \cup {k} |-> IF x = k THEN v ELSE d[x]]

\* Optional[Dict]: None, or a dict
None == [isNone |-> TRUE, fields |-> EmptyDict]
Some(d) == [isNone |-> FALSE, fields |-> d]

\* truthiness of an Optional[Dict]: None and {} are both falsy
Truthy(cur) == ~cur.isNone /\ DOMAIN cur.fields # {}

K_prompt == <<"p", "r", "o", "m", "p", "t">>
K_checklist == <<"c", "h", "e", "c", "k", "l", "i", "s", "t">>
K_tags == <<"t", "a", "g", "s">>
Bullet == <<"-", " ">>
BlockMarker == <<"|">>


\* ------------------------------------------------------------ input lines
\* "- tags: a, b ,c,"  (top-level marker with an inline tags pair)
LnItemTags == <<"-", " ", "t", "a", "g", "s", ":", " ", "a", ",", " ", "b", " ", ",", "c", ",">>

\* "- "  (top-level marker with nothing after it)
LnItemBare == <<"-", " ">>

\* "- checklist: a"  (top-level marker with an inline checklist pair)
LnItemChecklist == <<"-", " ", "c", "h", "e", "c", "k", "l", "i", "s", "t", ":", " ", "a">>

\* "  title: T"  (key: value)
LnTitle == <<" ", " ", "t", "i", "t", "l", "e", ":", " ", "T">>

\* "  prompt: |"  (block scalar declared under prompt)
LnPromptBlock == <<" ", " ", "p", "r", "o", "m", "p", "t", ":", " ", "|">>

\* "  notes: |"  (block scalar declared under another key)
LnNotesBlock == <<" ", " ", "n", "o", "t", "e", "s", ":", " ", "|">>

\* "    x y"  (continuation at indentation 4)
LnCont4 == <<" ", " ", " ", " ", "x", " ", "y">>

\* "   z"  (continuation at indentation 3)
LnCont3 == <<" ", " ", " ", "z">>

\* ""  (blank line)
LnBlank == <<>>

\* "# c"  (comment line)
LnComment == <<"#", " ", "c">>

\* "  checklist:"  (checklist declaration at indentation 2)
LnChecklist == <<" ", " ", "c", "h", "e", "c", "k", "l", "i", "s", "t", ":">>

\* "    - b"  (bullet at indentation 4)
LnBullet4 == <<" ", " ", " ", " ", "-", " ", "b">>

\* "      - d"  (bullet at indentation 6)
LnBullet6 == <<" ", " ", " ", " ", " ", " ", "-", " ", "d">>

\* "  - c"  (bullet at indentation 2)
LnBullet2 == <<" ", " ", "-", " ", "c">>

\* the lines a document is drawn from
Lines ==
    {LnItemTags,
     LnItemBare,
     LnItemChecklist,
     LnTitle,
     LnPromptBlock,
     LnNotesBlock,
     LnCont4,
     LnCont3,
     LnBlank,
     LnComment,
     LnChecklist,
     LnBullet4,
     LnBullet6,
     LnBullet2}

\* the lines longer documents are drawn from
CoreLines ==
    {LnItemTags, LnTitle, LnPromptBlock, LnCont4, LnBlank, LnChecklist,
     LnBullet4, LnBullet6}

\* ---------------------------------------------------------------- state
VARIABLES
    doc,                \* lines of the document read so far
    pc,                 \* "loop", "done" (returned) or "raised" (exception)
    items,              \* parse_questions_yaml: items
    current,            \* parse_questions_yaml: current
    collecting_prompt,  \* parse_questions_yaml: collecting_prompt
    prompt_lines,       \* parse_questions_yaml: prompt_lines
    prompt_indent,      \* parse_questions_yaml: prompt_indent
    checklist_mode,     \* parse_questions_yaml: checklist_mode
    checklist_indent,   \* parse_questions_yaml: checklist_indent
    exercises,          \* the entries under EXERCISES: name -> tree
    sg_pc,              \* suggest_collision_free_slug: "idle", "start", "loop", "done"
    sg_slug,            \* suggest_collision_free_slug: slug
    sg_base,            \* suggest_collision_free_slug: base
    sg_i,               \* suggest_collision_free_slug: i
    sg_result,          \* suggest_collision_free_slug: the value returned
    templates,          \* the entries under TEMPLATES: name -> tree
    ce_pc,              \* create_exercise: position
    ce_slug,            \* create_exercise: slug
    ce_template,        \* create_exercise: template
    ce_meta,            \* create_exercise: meta
    exits,              \* exit statuses of the invocations that have ended
    calls,              \* invocations started so far
    pk_pc,              \* slug_to_pkg_segment: "idle", "call" or "done"
    pk_slug,            \* slug_to_pkg_segment: slug
    pk_seg,             \* slug_to_pkg_segment: the value returned
    inv_pc,             \* concurrent create_exercise: position of each process
    inv_slug,           \* concurrent create_exercise: slug of each process
    inv_template,       \* concurrent create_exercise: template of each process
    inv_meta,           \* concurrent create_exercise: meta of each process
    inv_suggestion,     \* concurrent create_exercise: suggestion of each process
    inv_exit            \* concurrent create_exercise: exit status of each process

parserVars ==
    <<doc, pc, items, current, collecting_prompt, prompt_lines,
      prompt_indent, checklist_mode, checklist_indent>>

\* --------------------------------------------------- parse_questions_yaml
\* line 85: blank and comment lines are skipped before any state is looked at
IsSkipped(line) == Strip(line) = <<>> \/ StartsWith(LStrip(line), <<"#">>)

\* line 87: number of leading space characters
Indent(line) == Len(line) - Len(LStripSet(line, {" "}))

\* line 91: the entry appended for a continuation line
BlockEntry(line, base) == Drop(line, base + 2)

\* lines 96, 144: "\n".join(prompt_lines).rstrip("\n")
PromptValue(buf) == RStripSet(Join(buf, <<"\n">>), {"\n"})

\* the field a finished block scalar is written to (lines 96, 144)
BlockTargetKey == K_prompt

\* lines 95-96, 143-144: store the buffer unless there is no record
StorePrompt(cur, buf) ==
    IF cur.isNone THEN cur
    ELSE Some(Put(cur.fields, BlockTargetKey, Scalar(PromptValue(buf))))

\* the same test with a strict comparison of the indentation
ChecklistAccepts_Strict(line, minIndent) ==
    Indent(line) > minIndent /\ StartsWith(Strip(line), Bullet)

\* the same test without the comparison of the indentation
ChecklistAccepts_AnyIndent(line, minIndent) ==
    StartsWith(Strip(line), Bullet)

\* line 103: the test a line must pass to be taken as a checklist entry
ChecklistAccepts(line, minIndent) ==
    Indent(line) >= minIndent /\ StartsWith(Strip(line), Bullet)

\* line 104: the text after the marker
ChecklistItem(line) == Drop(Strip(line), 2)

\* line 106: current.setdefault("checklist", []).append(item)
AppendChecklist(cur, item) ==
    LET old == IF K_checklist \in DOMAIN cur.fields
               THEN cur.fields[K_checklist]
               ELSE List(<<>>)
    IN  Some(Put(cur.fields, K_checklist, List(Append(old.v, item))))

\* line 112: a top-level list marker
IsNewItem(line) == StartsWith(line, Bullet) /\ Indent(line) = 0

\* lines 114-115, 145-146: "if current: items.append(current)"
FinalizeCurrent(its, cur) ==
    IF Truthy(cur) THEN Append(its, cur.fields) ELSE its

\* lines 116-121: the record opened by a marker line, with its inline pair
OpenRecord(line) ==
    LET tail == Strip(Drop(line, 2))
    IN  IF tail # <<>> /\ Contains(tail, ":")
        THEN LET kv == SplitFirst(tail, ":")
             IN  Some(Put(EmptyDict, Strip(kv[1]), Scalar(Strip(kv[2]))))
        ELSE Some(EmptyDict)

\* lines 126-127: key of a "key: value" line
KeyOf(line) == Strip(SplitFirst(Strip(line), ":")[1])

\* lines 126, 128: value of a "key: value" line
ValOf(line) == Strip(SplitFirst(Strip(line), ":")[2])

\* line 151: [t.strip() for t in tags.split(",") if t.strip()]
RECURSIVE TrimNonEmpty(_)
TrimNonEmpty(parts) ==
    IF parts = <<>> THEN <<>>
    ELSE IF Strip(parts[1]) # <<>>
         THEN <<Strip(parts[1])>> \o TrimNonEmpty(Tail(parts))
         ELSE TrimNonEmpty(Tail(parts))

\* the pieces kept as they are, without trimming
SplitTags_NoTrim(s) ==
    SelectSeq(SplitAll(s, ","), LAMBDA t : Strip(t) # <<>>)

SplitTags(s) == TrimNonEmpty(SplitAll(s, ","))

\* lines 150-154: normalisation of one record
NormalizeRecord(it) ==
    IF K_tags \in DOMAIN it /\ it[K_tags].t = "Scalar"
    THEN Put(it, K_tags, List(SplitTags(it[K_tags].v)))
    ELSE it

\* lines 149-154
Normalize(its) == [i \in 1..Len(its) |-> NormalizeRecord(its[i])]

\* the local variables of the parser as one value
ParserState ==
    [items |-> items, current |-> current,
     collecting_prompt |-> collecting_prompt, prompt_lines |-> prompt_lines,
     prompt_indent |-> prompt_indent, checklist_mode |-> checklist_mode,
     checklist_indent |-> checklist_indent,
     raised |-> FALSE, cont |-> FALSE]

\* the block-scalar section that takes the line which ends the block
PromptSection_ConsumeOnExit(st, line) ==
    IF ~st.collecting_prompt THEN st
    ELSE IF Indent(line) > st.prompt_indent
    THEN [st EXCEPT !.prompt_lines = Append(@, BlockEntry(line, st.prompt_indent)),
                    !.cont = TRUE]
    ELSE [st EXCEPT !.current = StorePrompt(st.current, st.prompt_lines),
                    !.collecting_prompt = FALSE,
                    !.prompt_lines = <<>>,
                    !.prompt_indent = 0,
                    !.cont = TRUE]

\* lines 89-100: the block-scalar section of the loop body
PromptSection(st, line) ==
    IF ~st.collecting_prompt THEN st
    ELSE IF Indent(line) > st.prompt_indent
    THEN [st EXCEPT !.prompt_lines = Append(@, BlockEntry(line, st.prompt_indent)),
                    !.cont = TRUE]
    ELSE [st EXCEPT !.current = StorePrompt(st.current, st.prompt_lines),
                    !.collecting_prompt = FALSE,
                    !.prompt_lines = <<>>,
                    !.prompt_indent = 0]

\* the checklist section that leaves the flag set when the checklist ends
ChecklistSection_KeepMode(st, line) ==
    IF ~st.checklist_mode THEN st
    ELSE IF ChecklistAccepts(line, st.checklist_indent)
    THEN IF st.current.isNone
         THEN [st EXCEPT !.raised = TRUE, !.cont = TRUE]
         ELSE [st EXCEPT !.current = AppendChecklist(st.current, ChecklistItem(line)),
                         !.cont = TRUE]
    ELSE st

\* lines 102-110: the checklist section of the loop body
ChecklistSection(st, line) ==
    IF ~st.checklist_mode THEN st
    ELSE IF ChecklistAccepts(line, st.checklist_indent)
    THEN IF st.current.isNone
         THEN [st EXCEPT !.raised = TRUE, !.cont = TRUE]
         ELSE [st EXCEPT !.current = AppendChecklist(st.current, ChecklistItem(line)),
                         !.cont = TRUE]
    ELSE [st EXCEPT !.checklist_mode = FALSE, !.checklist_indent = 0]

\* lines 112-122: a marker line closes the record in progress, opens the next
NewItemSection(st, line) ==
    [st EXCEPT !.items = FinalizeCurrent(st.items, st.current),
               !.current = OpenRecord(line),
               !.cont = TRUE]

\* lines 125-141: "key: |", "checklist:" and "key: value"
KeyValueSection(st, line) ==
    IF ValOf(line) = BlockMarker
    THEN [st EXCEPT !.collecting_prompt = TRUE,
                    !.prompt_indent = Indent(line),
                    !.prompt_lines = <<>>]
    ELSE IF st.current.isNone
    THEN [st EXCEPT !.raised = TRUE,
                    !.checklist_mode = (KeyOf(line) = K_checklist) \/ @,
                    !.checklist_indent =
                        IF KeyOf(line) = K_checklist THEN Indent(line) + 2 ELSE @]
    ELSE IF KeyOf(line) = K_checklist
    THEN [st EXCEPT !.checklist_mode = TRUE,
                    !.checklist_indent = Indent(line) + 2,
                    !.current = Some(Put(st.current.fields, K_checklist, List(<<>>)))]
    ELSE [st EXCEPT !.current = Some(Put(st.current.fields, KeyOf(line),
                                         Scalar(ValOf(line))))]

\* lines 84-141: one iteration of the loop over the lines
LoopBody(st, line) ==
    IF IsSkipped(line) THEN st
    ELSE LET s1 == PromptSection(st, line)
         IN  IF s1.cont THEN s1
             ELSE LET s2 == ChecklistSection(s1, line)
                  IN  IF s2.cont THEN s2
                      ELSE IF IsNewItem(line) THEN NewItemSection(s2, line)
                      ELSE IF Contains(line, ":") THEN KeyValueSection(s2, line)
                      ELSE s2

ParseInit ==
    /\ doc = <<>>
    /\ pc = "loop"
    /\ items = <<>>
    /\ current = None
    /\ collecting_prompt = FALSE
    /\ prompt_lines = <<>>
    /\ prompt_indent = 0
    /\ checklist_mode = FALSE
    /\ checklist_indent = 0

\* the documents explored: any lines up to MaxLines, core lines up to
\* MaxCoreLines
CanRead(line) ==
    \/ Len(doc) < MaxLines
    \/ /\ Len(doc) < MaxCoreLines
       /\ line \in CoreLines
       /\ \A i \in 1..Len(doc) : doc[i] \in CoreLines

\* the loop reads the next line of the document
ReadLine(line) ==
    /\ pc = "loop"
    /\ CanRead(line)
    /\ LET st == LoopBody(ParserState, line)
       IN  /\ doc' = Append(doc, line)
           /\ pc' = IF st.raised THEN "raised" ELSE "loop"
           /\ items' = st.items
           /\ current' = st.current
           /\ collecting_prompt' = st.collecting_prompt
           /\ prompt_lines' = st.prompt_lines
           /\ prompt_indent' = st.prompt_indent
           /\ checklist_mode' = st.checklist_mode
           /\ checklist_indent' = st.checklist_indent

\* end of input that leaves an open block scalar unwritten
EndOfInput_DropOpenBlock ==
    /\ pc = "loop"
    /\ current' = IF Truthy(current) THEN Some(NormalizeRecord(current.fields))
                  ELSE current
    /\ items' = Normalize(FinalizeCurrent(items, current))
    /\ pc' = "done"
    /\ UNCHANGED <<doc, collecting_prompt, prompt_lines, prompt_indent,
                   checklist_mode, checklist_indent>>

\* lines 143-155: end of input, flush, normalise and return
EndOfInput ==
    /\ pc = "loop"
    /\ LET cur == IF collecting_prompt THEN StorePrompt(current, prompt_lines)
                  ELSE current
       IN  /\ current' = IF Truthy(cur) THEN Some(NormalizeRecord(cur.fields))
                         ELSE cur
           /\ items' = Normalize(FinalizeCurrent(items, cur))
    /\ pc' = "done"
    /\ UNCHANGED <<doc, collecting_prompt, prompt_lines, prompt_indent,
                   checklist_mode, checklist_indent>>

slugVars == <<exercises, sg_pc, sg_slug, sg_base, sg_i, sg_result>>

createVars == <<templates, ce_pc, ce_slug, ce_template, ce_meta, exits, calls>>

pkgVars == <<pk_pc, pk_slug, pk_seg>>

raceVars ==
    <<inv_pc, inv_slug, inv_template, inv_meta, inv_suggestion, inv_exit>>

vars == <<parserVars, slugVars, createVars, pkgVars, raceVars>>

\* the processes of a concurrent run
Procs == {1, 2}

\* no call of slug_to_pkg_segment on its own is running
PkgIdle ==
    /\ pk_pc = "idle"
    /\ pk_slug = <<>>
    /\ pk_seg = <<>>

\* no concurrent invocations are running
RaceIdle ==
    /\ inv_pc = [p \in Procs |-> "idle"]
    /\ inv_slug = [p \in Procs |-> <<>>]
    /\ inv_template = [p \in Procs |-> ""]
    /\ inv_meta = [p \in Procs |-> EmptyDict]
    /\ inv_suggestion = [p \in Procs |-> <<>>]
    /\ inv_exit = [p \in Procs |-> 0]

CreateIdle ==
    /\ templates = [n \in {} |-> [p \in {} |-> 0]]
    /\ ce_pc = "idle"
    /\ ce_slug = <<>>
    /\ ce_template = ""
    /\ ce_meta = EmptyDict
    /\ exits = <<>>
    /\ calls = 0

\* the other operations are not running
SlugIdle ==
    /\ exercises = [n \in {} |-> [p \in {} |-> 0]]
    /\ sg_pc = "idle"
    /\ sg_slug = <<>>
    /\ sg_base = <<>>
    /\ sg_i = 0
    /\ sg_result = <<>>

ParserIdle ==
    /\ doc = <<>>
    /\ pc = "idle"
    /\ items = <<>>
    /\ current = None
    /\ collecting_prompt = FALSE
    /\ prompt_lines = <<>>
    /\ prompt_indent = 0
    /\ checklist_mode = FALSE
    /\ checklist_indent = 0

Init == ParseInit /\ SlugIdle /\ CreateIdle /\ PkgIdle /\ RaceIdle

Next ==
    \/ (\E line \in Lines : ReadLine(line)) /\ UNCHANGED <<slugVars, createVars, pkgVars, raceVars>>
    \/ EndOfInput /\ UNCHANGED <<slugVars, createVars, pkgVars, raceVars>>

Spec == Init /\ [][Next]_vars

\* -------------------------------------------- suggest_collision_free_slug
DigitChars == <<"0", "1", "2", "3", "4", "5", "6", "7", "8", "9">>

IsDigit(c) == \E d \in 1..10 : DigitChars[d] = c

DigitVal(c) == (CHOOSE d \in 1..10 : DigitChars[d] = c) - 1

RECURSIVE ParseInt(_)
\* int(s) for a non-empty string of digits
ParseInt(s) ==
    IF Len(s) = 1 THEN DigitVal(s[1])
    ELSE 10 * ParseInt(SubSeq(s, 1, Len(s) - 1)) + DigitVal(s[Len(s)])

RECURSIVE ToStr(_)
\* str(n) for n >= 0
ToStr(n) ==
    IF n < 10 THEN <<DigitChars[n + 1]>>
    ELSE Append(ToStr(n \div 10), DigitChars[(n % 10) + 1])

\* the text -v(\d+)$ matches the whole of s
IsVersionSuffix(s) ==
    /\ Len(s) >= 3
    /\ s[1] = "-"
    /\ s[2] = "v"
    /\ \A j \in 3..Len(s) : IsDigit(s[j])

RECURSIVE LazyMatch(_, _)
\* line 36: re.match(r"^(.*?)-v(\d+)$", slug), trying the shortest group 1
\* first; n is the length of the candidate for group 1
LazyMatch(slug, n) ==
    IF n > Len(slug) THEN [ok |-> FALSE, base |-> slug, digits |-> <<>>]
    ELSE IF IsVersionSuffix(Drop(slug, n))
    THEN [ok |-> TRUE, base |-> Take(slug, n), digits |-> Drop(slug, n + 2)]
    ELSE LazyMatch(slug, n + 1)

\* the search starts at the version of the slug itself
StartOf_NoIncrement(m) == IF m.ok THEN ParseInt(m.digits) ELSE 2

\* lines 37-41: where the search starts
StartOf(m) == IF m.ok THEN ParseInt(m.digits) + 1 ELSE 2

\* lines 35-38: the base the suggestion is built on
BaseOf(m) == m.base

\* lines 43, 45: f"{base}-v{i}"
Versioned(base, i) == base \o <<"-", "v">> \o ToStr(i)

\* lines 43, 201: Path.exists() of an entry under EXERCISES
Exists(name) == name \in DOMAIN exercises

\* lines 35-42
SgMatch ==
    /\ sg_pc = "start"
    /\ LET m == LazyMatch(sg_slug, 0)
       IN  /\ sg_base' = BaseOf(m)
           /\ sg_i' = StartOf(m)
    /\ sg_pc' = "loop"
    /\ UNCHANGED <<exercises, sg_slug, sg_result>>

\* lines 43-44: the candidate exists, try the next one
SgLoop ==
    /\ sg_pc = "loop"
    /\ Exists(Versioned(sg_base, sg_i))
    /\ sg_i' = sg_i + 1
    /\ UNCHANGED <<exercises, sg_pc, sg_slug, sg_base, sg_result>>

\* lines 43, 45: the candidate does not exist, return it
SgReturn ==
    /\ sg_pc = "loop"
    /\ ~Exists(Versioned(sg_base, sg_i))
    /\ sg_result' = Versioned(sg_base, sg_i)
    /\ sg_pc' = "done"
    /\ UNCHANGED <<exercises, sg_slug, sg_base, sg_i>>

\* "a"
SlugA == <<"a">>

\* "a-v1"
SlugAv1 == <<"a", "-", "v", "1">>

\* "a-v2"
SlugAv2 == <<"a", "-", "v", "2">>

\* "a-v9"
SlugAv9 == <<"a", "-", "v", "9">>

\* "a-v09"
SlugAv09 == <<"a", "-", "v", "0", "9">>

\* "a-v"
SlugAv == <<"a", "-", "v">>

\* "a-v1-v2"
SlugAv1v2 == <<"a", "-", "v", "1", "-", "v", "2">>

\* "-v3"
SlugV3 == <<"-", "v", "3">>

\* "a-v1x"
SlugAv1x == <<"a", "-", "v", "1", "x">>

\* the slugs a suggestion is asked for
SlugInputs ==
    {SlugA, SlugAv1, SlugAv2, SlugAv9, SlugAv09, SlugAv, SlugAv1v2, SlugV3, SlugAv1x}

\* versions that entries under the exercises root may carry
EntryVersions == {2, 3, 4, 10}

\* the names entries under the exercises root are drawn from
EntryNames ==
    SlugInputs \cup
    {Versioned(b, k) : b \in {SlugA, SlugAv1, SlugAv, <<>>}, k \in EntryVersions}
    \cup {<<"a", "-", "v", "0", "3">>}

RECURSIVE SetsUpTo(_)
\* the sets of at most n entry names
SetsUpTo(n) ==
    IF n = 0 THEN {{}}
    ELSE LET smaller == SetsUpTo(n - 1)
         IN  smaller \cup {S \cup {x} : S \in smaller, x \in EntryNames}

\* a tree with no entries
EmptyTree == [p \in {} |-> 0]

SlugInit ==
    /\ ParserIdle
    /\ CreateIdle
    /\ PkgIdle
    /\ RaceIdle
    /\ \E S \in SetsUpTo(MaxExisting) : exercises = [n \in S |-> EmptyTree]
    /\ sg_slug \in SlugInputs
    /\ sg_pc = "start"
    /\ sg_base = <<>>
    /\ sg_i = 0
    /\ sg_result = <<>>

SlugNext ==
    \/ SgMatch /\ UNCHANGED <<parserVars, createVars, pkgVars, raceVars>>
    \/ SgLoop /\ UNCHANGED <<parserVars, createVars, pkgVars, raceVars>>
    \/ SgReturn /\ UNCHANGED <<parserVars, createVars, pkgVars, raceVars>>

SpecSlug == SlugInit /\ [][SlugNext]_vars

\* the call runs to its return once started
SpecSlugFair == SpecSlug /\ WF_vars(SlugNext)

\* -------------------------------------------------------- create_exercise
\* A tree maps the path of each entry, relative to the root of the tree, to
\* a node; a path is the sequence of its component names.
Dir == [isDir |-> TRUE, data |-> <<>>]
File(content) == [isDir |-> FALSE, data |-> content]

UpperChars == <<"A", "B", "C", "D", "E", "F", "G", "H", "I", "J", "K", "L", "M",
                "N", "O", "P", "Q", "R", "S", "T", "U", "V", "W", "X", "Y", "Z">>
LowerChars == <<"a", "b", "c", "d", "e", "f", "g", "h", "i", "j", "k", "l", "m",
                "n", "o", "p", "q", "r", "s", "t", "u", "v", "w", "x", "y", "z">>

IsUpper(c) == \E i \in 1..26 : UpperChars[i] = c
IsLower(c) == \E i \in 1..26 : LowerChars[i] = c

\* c.isalpha()
IsAlpha(c) == IsUpper(c) \/ IsLower(c)

\* s.lower()
Lower(s) ==
    [i \in 1..Len(s) |->
        IF IsUpper(s[i])
        THEN LowerChars[CHOOSE j \in 1..26 : UpperChars[j] = s[i]]
        ELSE s[i]]

\* line 50: re.sub(r"[^A-Za-z0-9]", "", slug)
AlnumOnly(s) == SelectSeq(s, LAMBDA c : IsAlpha(c) \/ IsDigit(c))

\* the filler is added to an empty result only
slug_to_pkg_segment_FillEmptyOnly(slug) ==
    LET seg == AlnumOnly(slug)
    IN  Lower(IF seg = <<>> THEN <<"x">> ELSE seg)

\* lines 48-53
slug_to_pkg_segment(slug) ==
    LET seg == AlnumOnly(slug)
    IN  Lower(IF seg = <<>> \/ ~IsAlpha(seg[1]) THEN <<"x">> \o seg ELSE seg)

RECURSIVE Replace(_, _, _)
\* s.replace(old, new), old not empty
Replace(s, old, new) ==
    IF Len(s) < Len(old) THEN s
    ELSE IF StartsWith(s, old) THEN new \o Replace(Drop(s, Len(old)), old, new)
    ELSE <<s[1]>> \o Replace(Tail(s), old, new)

\* the position of the last "." of a name, 0 when there is none
LastDot(name) ==
    IF Contains(name, ".")
    THEN CHOOSE i \in 1..Len(name) :
            name[i] = "." /\ \A j \in (i + 1)..Len(name) : name[j] # "."
    ELSE 0

\* Path.suffix
Suffix(name) ==
    LET i == LastDot(name)
    IN  IF 1 < i /\ i < Len(name) THEN Drop(name, i - 1) ELSE <<>>

\* line 178
TextSuffixes ==
    {<<".", "m", "d">>,
     <<".", "j", "a", "v", "a">>,
     <<".", "k", "t">>,
     <<".", "k", "t", "s">>,
     <<".", "g", "r", "a", "d", "l", "e">>,
     <<".", "t", "x", "t">>}

\* lines 177-178
is_text_file(path) == Lower(Suffix(Last(path))) \in TextSuffixes

\* str(meta.get(key, default)) of a str value
GetStr(meta, key, default) ==
    IF key \in DOMAIN meta THEN meta[key].v ELSE default

K_title == <<"t", "i", "t", "l", "e">>
K_difficulty == <<"d", "i", "f", "f", "i", "c", "u", "l", "t", "y">>

\* line 215
TitleOf(slug, meta) ==
    LET t == Strip(GetStr(meta, K_title, slug))
    IN  IF t # <<>> THEN t ELSE slug

\* lines 217-220
TagsOf(meta) ==
    LET l == IF K_tags \notin DOMAIN meta THEN <<>>
             ELSE IF meta[K_tags].t = "Scalar" THEN SplitTags(meta[K_tags].v)
             ELSE meta[K_tags].v
    IN  Join(l, <<",", " ">>)

\* lines 167-168
render_checklist_bullets(l) ==
    Join([i \in 1..Len(l) |-> Bullet \o l[i]], <<"\n">>)

\* line 225: the bullet used when there is no checklist
DefaultChecklist == <<"-", " ", "[", " ", "]", " ", "D", "e", "f", "i", "n", "e", " ", "y", "o", "u", "r", " ", "p", "l", "a", "n">>

\* lines 222-225
ChecklistOf(meta) ==
    LET l == IF K_checklist \notin DOMAIN meta THEN <<>>
             ELSE IF meta[K_checklist].t = "Scalar"
             THEN TrimNonEmpty(SplitAll(meta[K_checklist].v, "\n"))
             ELSE meta[K_checklist].v
    IN  IF l # <<>> THEN render_checklist_bullets(l) ELSE DefaultChecklist

\* lines 227-233: the tokens, in the order of the dict
Tokens(slug, meta) ==
    <<<<<<"T", "I", "T", "L", "E">>, TitleOf(slug, meta)>>,
      <<<<"P", "R", "O", "M", "P", "T">>, Strip(GetStr(meta, K_prompt, <<>>))>>,
      <<<<"T", "A", "G", "S">>, TagsOf(meta)>>,
      <<<<"D", "I", "F", "F", "I", "C", "U", "L", "T", "Y">>, Strip(GetStr(meta, K_difficulty, <<"u", "n", "k", "n", "o", "w", "n">>))>>,
      <<<<"C", "H", "E", "C", "K", "L", "I", "S", "T">>, ChecklistOf(meta)>>>>

RECURSIVE replace_tokens_in_text(_, _)
\* lines 171-174
replace_tokens_in_text(content, tokens) ==
    IF tokens = <<>> THEN content
    ELSE replace_tokens_in_text(
             Replace(content, <<"$", "{">> \o tokens[1][1] \o <<"}">>, tokens[1][2]),
             Tail(tokens))

\* line 243
Sentinel == <<"c", "o", "m", ".", "l", "e", "a", "r", "n", ".", "o", "o", "d", ".", "E", "X", "E", "R", "C", "I", "S", "E", "_", "P", "K", "G">>
PkgPrefix == <<"c", "o", "m", ".", "l", "e", "a", "r", "n", ".", "o", "o", "d", ".", "e", "x", "e", "r", "c", "i", "s", "e", "s", ".">>

\* lines 238-244: the content written back to a text file
RenderContent(content, slug, meta) ==
    Replace(replace_tokens_in_text(content, Tokens(slug, meta)),
            Sentinel, PkgPrefix \o slug_to_pkg_segment(slug))

\* lines 235-248
RenderTree(tree, slug, meta) ==
    [p \in DOMAIN tree |->
        IF ~tree[p].isDir /\ is_text_file(p)
        THEN File(RenderContent(tree[p].data, slug, meta))
        ELSE tree[p]]

N_src == <<"s", "r", "c">>
N_java == <<"j", "a", "v", "a">>
N_com == <<"c", "o", "m">>
N_learn == <<"l", "e", "a", "r", "n">>
N_ood == <<"o", "o", "d">>
N_pkg == <<"E", "X", "E", "R", "C", "I", "S", "E", "_", "P", "K", "G">>
N_exercises == <<"e", "x", "e", "r", "c", "i", "s", "e", "s">>

\* line 183: the path ends with src/*/java/com/learn/ood/EXERCISE_PKG
IsPkgRoot(p) ==
    /\ Len(p) >= 7
    /\ p[Len(p) - 6] = N_src
    /\ p[Len(p) - 4] = N_java
    /\ p[Len(p) - 3] = N_com
    /\ p[Len(p) - 2] = N_learn
    /\ p[Len(p) - 1] = N_ood
    /\ p[Len(p)] = N_pkg

IsPrefix(a, b) == Len(a) <= Len(b) /\ SubSeq(b, 1, Len(a)) = a

\* the placeholder directories of a tree
PkgRoots(tree) == {p \in DOMAIN tree : tree[p].isDir /\ IsPkgRoot(p)}

\* line 184
NewDir(r, seg) == SubSeq(r, 1, Len(r) - 1) \o <<N_exercises, seg>>

\* line 183: the paths base.rglob yields, directories and files; in the trees
\* considered no such path lies below another
PkgMatches(tree) == {p \in DOMAIN tree : IsPkgRoot(p)}

\* the entries directly inside a directory
Children(tree, d) == {p \in DOMAIN tree : Len(p) = Len(d) + 1 /\ IsPrefix(d, p)}

\* an entry and everything below it
Subtree(tree, p) == {q \in DOMAIN tree : IsPrefix(p, q)}

\* lines 185, 190: Path.mkdir(parents=True, exist_ok=True); raises when the
\* path or a directory above it exists as a file
MkDirs(tree, d) ==
    LET chain == {SubSeq(d, 1, n) : n \in 1..Len(d)}
    IN  IF \E c \in chain : c \in DOMAIN tree /\ ~tree[c].isDir
        THEN [raised |-> TRUE, tree |-> tree]
        ELSE [raised |-> FALSE, tree |-> tree @@ [c \in chain |-> Dir]]

\* os.rename(src, dst): the entry with everything below it goes to dst, which
\* is free or a file that is replaced
Rename(tree, src, dst) ==
    LET gone == Subtree(tree, src)
        target(q) == dst \o Drop(q, Len(src))
        landed == {target(q) : q \in gone}
    IN  [t \in landed |-> tree[CHOOSE q \in gone : target(q) = t]]
            @@ [t \in DOMAIN tree \ gone |-> tree[t]]

\* line 191: shutil.move(src, dst). A dst that is a directory takes the entry
\* inside it, under the name of src, and raises when that name is taken; a
\* directory is not moved onto a file
ShutilMove(tree, src, dst) ==
    LET into == dst \in DOMAIN tree /\ tree[dst].isDir
        real == IF into THEN Append(dst, Last(src)) ELSE dst
    IN  IF into /\ real \in DOMAIN tree
        THEN [raised |-> TRUE, tree |-> tree]
        ELSE IF real \in DOMAIN tree /\ tree[src].isDir
        THEN [raised |-> TRUE, tree |-> tree]
        ELSE [raised |-> FALSE, tree |-> Rename(tree, src, real)]

RECURSIVE MoveChildren(_, _, _, _)
\* lines 187-191: the entries src_root.rglob("*") yields are those directly
\* inside src_root, in the order of the directory scan, which is any order:
\* when the scan goes on below src_root everything has been moved away. The
\* value is the set of outcomes over the orders; the first move that raises
\* ends the loop
MoveChildren(tree, r, new_dir, todo) ==
    IF todo = {} THEN {[raised |-> FALSE, tree |-> tree]}
    ELSE UNION {LET res == ShutilMove(tree, p, new_dir \o Drop(p, Len(r)))
                IN  IF res.raised THEN {res}
                    ELSE MoveChildren(res.tree, r, new_dir, todo \ {p})
                : p \in todo}

\* lines 193-196: shutil.rmtree(src_root); it raises for a file, and that is
\* swallowed
RmTree(tree, r) ==
    IF tree[r].isDir
    THEN [t \in DOMAIN tree \ Subtree(tree, r) |-> tree[t]] @@ EmptyTree
    ELSE tree

\* lines 184-196: the body of the loop for one src_root
MoveRoot(tree, r, seg) ==
    LET made == MkDirs(tree, NewDir(r, seg))
    IN  IF made.raised \/ ~tree[r].isDir THEN {made}
        ELSE {IF o.raised THEN o
              ELSE [raised |-> FALSE, tree |-> RmTree(o.tree, r)]
              : o \in MoveChildren(made.tree, r, NewDir(r, seg),
                                   Children(made.tree, r))}

RECURSIVE MoveRoots(_, _, _)
\* line 183: the loop over the matches, in any order
MoveRoots(tree, seg, todo) ==
    IF todo = {} THEN {[raised |-> FALSE, tree |-> tree]}
    ELSE UNION {UNION {IF o.raised THEN {o}
                       ELSE MoveRoots(o.tree, seg, todo \ {r})
                       : o \in MoveRoot(tree, r, seg)}
                : r \in todo}

\* lines 181-196: the outcomes of the call, each the tree it leaves and
\* whether it raised
move_exercise_pkg_dirs(tree, seg) == MoveRoots(tree, seg, PkgMatches(tree))

P_build == <<<<"b", "u", "i", "l", "d", ".", "g", "r", "a", "d", "l", "e", ".", "k", "t", "s">>>>

\* lines 258-266
BuildFileText ==
    <<"p", "l", "u", "g", "i", "n", "s", " ", "{", " ", "i", "d", "(", "\"", "j", "a", "v", "a", "\"", ")", " ", "}", "\n",
      "\n", "d", "e", "p", "e", "n", "d", "e", "n", "c", "i", "e", "s", " ", "{", "\n",
      " ", " ", "i", "m", "p", "l", "e", "m", "e", "n", "t", "a", "t", "i", "o", "n", "(", "p", "r", "o", "j", "e", "c", "t", "(", "\"", ":", "c", "o", "m", "m", "o", "n", "\"", ")", ")", "\n",
      " ", " ", "t", "e", "s", "t", "I", "m", "p", "l", "e", "m", "e", "n", "t", "a", "t", "i", "o", "n", "(", "p", "l", "a", "t", "f", "o", "r", "m", "(", "\"", "o", "r", "g", ".", "j", "u", "n", "i", "t", ":", "j", "u", "n", "i", "t", "-", "b", "o", "m", ":", "5", ".", "1", "0", ".", "2", "\"", ")", ")", "\n",
      " ", " ", "t", "e", "s", "t", "I", "m", "p", "l", "e", "m", "e", "n", "t", "a", "t", "i", "o", "n", "(", "\"", "o", "r", "g", ".", "j", "u", "n", "i", "t", ".", "j", "u", "p", "i", "t", "e", "r", ":", "j", "u", "n", "i", "t", "-", "j", "u", "p", "i", "t", "e", "r", "\"", ")", "\n",
      "}", "\n",
      "\n", "t", "a", "s", "k", "s", ".", "t", "e", "s", "t", " ", "{", " ", "u", "s", "e", "J", "U", "n", "i", "t", "P", "l", "a", "t", "f", "o", "r", "m", "(", ")", " ", "}", "\n">>

\* lines 254-267
EnsureBuildFile(tree) ==
    IF P_build \in DOMAIN tree THEN tree
    ELSE [p \in DOMAIN tree \cup {P_build} |->
            IF p = P_build THEN File(BuildFileText) ELSE tree[p]]

\* line 205
ExitDestExists == 2
\* line 210
ExitNoTemplate == 1
\* the exit status of the interpreter after an uncaught exception (line 212)
ExitException == 1

\* a call of create_exercise(slug, meta, template) starts
CeStart(slug, meta, template) ==
    /\ ce_pc = "idle"
    /\ sg_pc \in {"idle", "done"}
    /\ calls < MaxCalls
    /\ calls' = calls + 1
    /\ ce_slug' = slug
    /\ ce_meta' = meta
    /\ ce_template' = template
    /\ ce_pc' = "check_dest"
    /\ UNCHANGED <<slugVars, templates, exits>>

\* lines 200-202: the destination exists, ask for a suggestion
CeDestExists ==
    /\ ce_pc = "check_dest"
    /\ Exists(ce_slug)
    /\ ce_pc' = "suggest"
    /\ sg_pc' = "start"
    /\ sg_slug' = ce_slug
    /\ UNCHANGED <<exercises, sg_base, sg_i, sg_result, templates, ce_slug,
                   ce_template, ce_meta, exits, calls>>

\* lines 203-205: report and exit
CeReject ==
    /\ ce_pc = "suggest"
    /\ sg_pc = "done"
    /\ exits' = Append(exits, ExitDestExists)
    /\ ce_pc' = "idle"
    /\ UNCHANGED <<slugVars, templates, ce_slug, ce_template, ce_meta, calls>>

\* line 201: the destination does not exist
CeDestFree ==
    /\ ce_pc = "check_dest"
    /\ ~Exists(ce_slug)
    /\ ce_pc' = "check_template"
    /\ UNCHANGED <<slugVars, templates, ce_slug, ce_template, ce_meta,
                   exits, calls>>

\* the destination directory is made before the template is looked for
CeCheckTemplate_MkdirFirst ==
    /\ ce_pc = "check_template"
    /\ IF ce_template \in DOMAIN templates
       THEN /\ ce_pc' = "copy"
            /\ UNCHANGED <<exits, exercises>>
       ELSE /\ exits' = Append(exits, ExitNoTemplate)
            /\ ce_pc' = "idle"
            /\ exercises' = [n \in DOMAIN exercises \cup {ce_slug} |->
                                IF n = ce_slug THEN EmptyTree ELSE exercises[n]]
    /\ UNCHANGED <<sg_pc, sg_slug, sg_base, sg_i, sg_result, templates,
                   ce_slug, ce_template, ce_meta, calls>>

\* lines 207-210
CeCheckTemplate ==
    /\ ce_pc = "check_template"
    /\ IF ce_template \in DOMAIN templates
       THEN /\ ce_pc' = "copy"
            /\ UNCHANGED exits
       ELSE /\ exits' = Append(exits, ExitNoTemplate)
            /\ ce_pc' = "idle"
    /\ UNCHANGED <<slugVars, templates, ce_slug, ce_template, ce_meta, calls>>

\* line 212: shutil.copytree raises when the destination exists or the
\* source does not
CeCopyTree ==
    /\ ce_pc = "copy"
    /\ IF Exists(ce_slug) \/ ce_template \notin DOMAIN templates
       THEN /\ exits' = Append(exits, ExitException)
            /\ ce_pc' = "idle"
            /\ UNCHANGED exercises
       ELSE /\ exercises' = [n \in DOMAIN exercises \cup {ce_slug} |->
                                IF n = ce_slug THEN templates[ce_template]
                                ELSE exercises[n]]
            /\ ce_pc' = "render"
            /\ UNCHANGED exits
    /\ UNCHANGED <<sg_pc, sg_slug, sg_base, sg_i, sg_result, templates,
                   ce_slug, ce_template, ce_meta, calls>>

\* lines 214-248
CeRender ==
    /\ ce_pc = "render"
    /\ exercises' = [exercises EXCEPT
                        ![ce_slug] = RenderTree(@, ce_slug, ce_meta)]
    /\ ce_pc' = "move"
    /\ UNCHANGED <<sg_pc, sg_slug, sg_base, sg_i, sg_result, templates,
                   ce_slug, ce_template, ce_meta, exits, calls>>

\* line 251: an exception of the relocation is not caught
CeMove ==
    /\ ce_pc = "move"
    /\ \E o \in move_exercise_pkg_dirs(exercises[ce_slug],
                                       slug_to_pkg_segment(ce_slug)) :
        /\ exercises' = [exercises EXCEPT ![ce_slug] = o.tree]
        /\ IF o.raised
           THEN /\ exits' = Append(exits, ExitException)
                /\ ce_pc' = "idle"
           ELSE /\ ce_pc' = "build"
                /\ UNCHANGED exits
    /\ UNCHANGED <<sg_pc, sg_slug, sg_base, sg_i, sg_result, templates,
                   ce_slug, ce_template, ce_meta, calls>>

\* lines 253-269
CeBuildAndReturn ==
    /\ ce_pc = "build"
    /\ exercises' = [exercises EXCEPT ![ce_slug] = EnsureBuildFile(@)]
    /\ exits' = Append(exits, 0)
    /\ ce_pc' = "idle"
    /\ UNCHANGED <<sg_pc, sg_slug, sg_base, sg_i, sg_result, templates,
                   ce_slug, ce_template, ce_meta, calls>>

\* ------------------------------------------------------ trees and records
P_readme == <<<<"R", "E", "A", "D", "M", "E", ".", "m", "d">>>>
P_logo == <<<<"l", "o", "g", "o", ".", "p", "n", "g">>>>
P_app == <<<<"s", "r", "c">>, <<"m", "a", "i", "n">>, <<"j", "a", "v", "a">>, <<"c", "o", "m">>, <<"l", "e", "a", "r", "n">>, <<"o", "o", "d">>, <<"E", "X", "E", "R", "C", "I", "S", "E", "_", "P", "K", "G">>, <<"A", "p", "p", ".", "j", "a", "v", "a">>>>

\* the directories above a path
Ancestors(p) == {SubSeq(p, 1, n) : n \in 1..(Len(p) - 1)}

\* the tree that holds the given files and the directories above them
TreeOf(files) ==
    LET dirs == UNION {Ancestors(p) : p \in DOMAIN files}
    IN  [p \in DOMAIN files \cup dirs |->
            IF p \in DOMAIN files THEN File(files[p]) ELSE Dir]

\* templates/exercise-java
TemplateJava ==
    TreeOf([p \in {P_readme, P_logo, P_build, P_app} |->
        IF p = P_readme THEN <<"$", "{", "T", "I", "T", "L", "E", "}">>
        ELSE IF p = P_logo THEN <<"$", "{", "T", "I", "T", "L", "E", "}">>
        ELSE IF p = P_build THEN <<"p", "l", "u", "g", "i", "n", "s">>
        ELSE <<"p", "a", "c", "k", "a", "g", "e", " ", "c", "o", "m", ".", "l", "e", "a", "r", "n", ".", "o", "o", "d", ".", "E", "X", "E", "R", "C", "I", "S", "E", "_", "P", "K", "G", ";">>])

\* templates/bare
TemplateBare ==
    TreeOf([p \in {P_readme} |-> <<"$", "{", "T", "I", "T", "L", "E", "}", ":", " ", "$", "{", "T", "A", "G", "S", "}">>])

\* an exercise the user has been working in
UserTree == TreeOf([p \in {P_readme} |-> <<"m", "i", "n", "e">>])

\* the template trees that may be installed
TemplateSets ==
    {[n \in {"exercise-java", "bare"} |->
        IF n = "exercise-java" THEN TemplateJava ELSE TemplateBare],
     [n \in {"bare"} |-> TemplateBare],
     [n \in {} |-> EmptyTree]}

\* the exercises that may exist before the first invocation
ExerciseSets ==
    {[n \in {} |-> EmptyTree],
     [n \in {SlugA} |-> UserTree],
     [n \in {SlugA, SlugAv2} |-> UserTree]}

\* the arguments of the invocations
CallSlugs == {SlugA, SlugAv2}
CallTemplates == {"exercise-java", "bare"}
CallMetas ==
    {EmptyDict,
     [k \in {K_title, K_tags} |->
        IF k = K_title THEN Scalar(<<" ", "T">>)
        ELSE List(<<<<"x">>, <<"y">>>>)]}

CreateInit ==
    /\ ParserIdle
    /\ PkgIdle
    /\ RaceIdle
    /\ exercises \in ExerciseSets
    /\ templates \in TemplateSets
    /\ sg_pc = "idle"
    /\ sg_slug = <<>>
    /\ sg_base = <<>>
    /\ sg_i = 0
    /\ sg_result = <<>>
    /\ ce_pc = "idle"
    /\ ce_slug = <<>>
    /\ ce_template = ""
    /\ ce_meta = EmptyDict
    /\ exits = <<>>
    /\ calls = 0

CreateNext ==
    \/ \E slug \in CallSlugs, meta \in CallMetas, template \in CallTemplates :
            CeStart(slug, meta, template) /\ UNCHANGED <<parserVars, pkgVars, raceVars>>
    \/ CeDestExists /\ UNCHANGED <<parserVars, pkgVars, raceVars>>
    \/ SgMatch /\ UNCHANGED <<parserVars, createVars, pkgVars, raceVars>>
    \/ SgLoop /\ UNCHANGED <<parserVars, createVars, pkgVars, raceVars>>
    \/ SgReturn /\ UNCHANGED <<parserVars, createVars, pkgVars, raceVars>>
    \/ CeReject /\ UNCHANGED <<parserVars, pkgVars, raceVars>>
    \/ CeDestFree /\ UNCHANGED <<parserVars, pkgVars, raceVars>>
    \/ CeCheckTemplate /\ UNCHANGED <<parserVars, pkgVars, raceVars>>
    \/ CeCopyTree /\ UNCHANGED <<parserVars, pkgVars, raceVars>>
    \/ CeRender /\ UNCHANGED <<parserVars, pkgVars, raceVars>>
    \/ CeMove /\ UNCHANGED <<parserVars, pkgVars, raceVars>>
    \/ CeBuildAndReturn /\ UNCHANGED <<parserVars, pkgVars, raceVars>>

SpecCreate == CreateInit /\ [][CreateNext]_vars

\* the steps of an invocation up to its first write
ChecksNext ==
    \/ CeDestExists /\ UNCHANGED <<parserVars, pkgVars, raceVars>>
    \/ SgMatch /\ UNCHANGED <<parserVars, createVars, pkgVars, raceVars>>
    \/ SgLoop /\ UNCHANGED <<parserVars, createVars, pkgVars, raceVars>>
    \/ SgReturn /\ UNCHANGED <<parserVars, createVars, pkgVars, raceVars>>
    \/ CeReject /\ UNCHANGED <<parserVars, pkgVars, raceVars>>
    \/ CeDestFree /\ UNCHANGED <<parserVars, pkgVars, raceVars>>
    \/ CeCheckTemplate /\ UNCHANGED <<parserVars, pkgVars, raceVars>>

\* an invocation that has started runs on through its checks
SpecCreateFair == SpecCreate /\ WF_vars(ChecksNext)

\* ---------------------------------------------------------------- cmd_new
K_slug == <<"s", "l", "u", "g">>

\* c.upper() of one character
UpperChar(c) ==
    IF IsLower(c) THEN UpperChars[CHOOSE j \in 1..26 : LowerChars[j] = c] ELSE c

\* c.lower() of one character
LowerChar(c) ==
    IF IsUpper(c) THEN LowerChars[CHOOSE j \in 1..26 : UpperChars[j] = c] ELSE c

\* s.title(): a letter is upper-cased after a character that is not a letter
\* and lower-cased after a letter
TitleCase(s) ==
    [i \in 1..Len(s) |->
        IF ~IsAlpha(s[i]) THEN s[i]
        ELSE IF i > 1 /\ IsAlpha(s[i - 1]) THEN LowerChar(s[i])
        ELSE UpperChar(s[i])]

\* line 284: args.title or slug.replace("-", " ").title()
ArgsTitle(slug, title) ==
    IF title # <<>> THEN title ELSE TitleCase(Replace(slug, <<"-">>, <<" ">>))

\* "unknown": the default of --difficulty (lines 287, 362)
Unknown == <<"u", "n", "k", "n", "o", "w", "n">>

\* lines 282-289: the record built from the command-line arguments
ArgsMeta(slug, title, tags) ==
    [k \in {K_slug, K_title, K_prompt, K_tags, K_difficulty, K_checklist} |->
        IF k = K_slug THEN Scalar(slug)
        ELSE IF k = K_title THEN Scalar(ArgsTitle(slug, title))
        ELSE IF k = K_prompt THEN Scalar(<<>>)
        ELSE IF k = K_tags THEN List(TrimNonEmpty(SplitAll(tags, ",")))
        ELSE IF k = K_difficulty THEN Scalar(Unknown)
        ELSE List(<<>>)]

\* lines 75-81: the parser before the first line
StartState ==
    [items |-> <<>>, current |-> None,
     collecting_prompt |-> FALSE, prompt_lines |-> <<>>,
     prompt_indent |-> 0, checklist_mode |-> FALSE,
     checklist_indent |-> 0,
     raised |-> FALSE, cont |-> FALSE]

RECURSIVE ParseLines(_, _)
\* lines 83-141: the loop over the lines, left when a line raises
ParseLines(st, lines) ==
    IF lines = <<>> \/ st.raised THEN st
    ELSE ParseLines(LoopBody([st EXCEPT !.cont = FALSE], lines[1]), Tail(lines))

\* lines 65-155: the value returned for a document, or the fact that it raised
parse_questions_yaml(lines) ==
    LET st == ParseLines(StartState, lines)
        cur == IF st.collecting_prompt
               THEN StorePrompt(st.current, st.prompt_lines)
               ELSE st.current
    IN  [raised |-> st.raised,
         items |-> IF st.raised THEN <<>>
                   ELSE Normalize(FinalizeCurrent(st.items, cur))]

\* a registry file that does not exist, and one with the given lines
NoRegistry == [exists |-> FALSE, lines |-> <<>>]
RegistryOf(lines) == [exists |-> TRUE, lines |-> lines]

\* lines 158-164: the first record whose slug is the one asked for
find_question_by_slug(reg, slug) ==
    IF ~reg.exists THEN [raised |-> FALSE, found |-> FALSE, q |-> EmptyDict]
    ELSE LET r == parse_questions_yaml(reg.lines)
             hits == {i \in 1..Len(r.items) :
                         /\ K_slug \in DOMAIN r.items[i]
                         /\ r.items[i][K_slug].t = "Scalar"
                         /\ r.items[i][K_slug].v = slug}
         IN  IF r.raised THEN [raised |-> TRUE, found |-> FALSE, q |-> EmptyDict]
             ELSE IF hits = {} THEN [raised |-> FALSE, found |-> FALSE, q |-> EmptyDict]
             ELSE [raised |-> FALSE, found |-> TRUE,
                   q |-> r.items[CHOOSE i \in hits : \A j \in hits : i <= j]]

\* line 279
ExitNotInRegistry == 1

\* lines 273-280, 291: new <slug> --from-registry
CmdNewRegistry(slug, reg, template) ==
    /\ ce_pc = "idle"
    /\ sg_pc \in {"idle", "done"}
    /\ calls < MaxCalls
    /\ calls' = calls + 1
    /\ LET f == find_question_by_slug(reg, slug)
       IN  IF f.raised
           THEN /\ exits' = Append(exits, ExitException)
                /\ UNCHANGED <<ce_pc, ce_slug, ce_meta, ce_template>>
           ELSE IF ~f.found
           THEN /\ exits' = Append(exits, ExitNotInRegistry)
                /\ UNCHANGED <<ce_pc, ce_slug, ce_meta, ce_template>>
           ELSE /\ ce_slug' = slug
                /\ ce_meta' = f.q
                /\ ce_template' = template
                /\ ce_pc' = "check_dest"
                /\ UNCHANGED exits
    /\ UNCHANGED <<slugVars, templates>>

\* lines 273, 281-291: new <slug> [--title ...] [--tags ...]
CmdNewArgs(slug, title, tags, template) ==
    /\ ce_pc = "idle"
    /\ sg_pc \in {"idle", "done"}
    /\ calls < MaxCalls
    /\ calls' = calls + 1
    /\ ce_slug' = slug
    /\ ce_meta' = ArgsMeta(slug, title, tags)
    /\ ce_template' = template
    /\ ce_pc' = "check_dest"
    /\ UNCHANGED <<slugVars, templates, exits>>

\* "av2"
SlugAV2 == <<"a", "v", "2">>

\* the slugs asked for on the command line
NewSlugs == {SlugA, SlugAv2, SlugAV2}

\* "- slug: a"
LnSlugA == <<"-", " ", "s", "l", "u", "g", ":", " ", "a">>

\* "- slug: a-v2"
LnSlugAv2 == <<"-", " ", "s", "l", "u", "g", ":", " ", "a", "-", "v", "2">>

\* "- slug: av2"
LnSlugAV2 == <<"-", " ", "s", "l", "u", "g", ":", " ", "a", "v", "2">>

\* "  tags: x, y"
LnTagsXY == <<" ", " ", "t", "a", "g", "s", ":", " ", "x", ",", " ", "y">>

\* "  title: ${TAGS}"
LnTitleTags == <<" ", " ", "t", "i", "t", "l", "e", ":", " ", "$", "{", "T", "A", "G", "S", "}">>

\* the registry files a record is looked up in
Registries ==
    {NoRegistry,
     RegistryOf(<<LnTitle>>),
     RegistryOf(<<LnSlugA, LnTitle, LnTagsXY, LnSlugAv2, LnTagsXY, LnSlugAV2>>),
     RegistryOf(<<LnSlugAv2, LnTitleTags, LnTagsXY, LnSlugAV2, LnTitle>>)}

\* the values of --title: not given, "${TAGS}", the package sentinel
ArgTitles == {<<>>, <<"$", "{", "T", "A", "G", "S", "}">>, Sentinel}

\* the values of --tags: not given, "x, y"
ArgTags == {<<>>, <<"x", ",", " ", "y">>}

\* src/main/java/com/learn/ood and src/test/java/com/learn/ood
OodMain == <<N_src, <<"m", "a", "i", "n">>, N_java, N_com, N_learn, N_ood>>
OodTest == <<N_src, <<"t", "e", "s", "t">>, N_java, N_com, N_learn, N_ood>>

N_sub == <<"s", "u", "b">>
N_deep == <<"d", "e", "e", "p">>
N_A == <<"A", ".", "j", "a", "v", "a">>
N_B == <<"B", ".", "j", "a", "v", "a">>
N_C == <<"C", ".", "j", "a", "v", "a">>
N_T == <<"T", ".", "j", "a", "v", "a">>
N_Z == <<"Z", ".", "j", "a", "v", "a">>

\* templates/nested: placeholder directories under the main and the test
\* source root, the first with files at three depths
TemplateNested ==
    TreeOf([p \in {OodMain \o <<N_pkg, N_A>>,
                   OodMain \o <<N_pkg, N_sub, N_B>>,
                   OodMain \o <<N_pkg, N_sub, N_deep, N_C>>,
                   OodTest \o <<N_pkg, N_T>>} |-> Last(p)])

\* templates/merge: the template already holds exercises/av2/sub
TemplateMerge ==
    TreeOf([p \in {OodMain \o <<N_pkg, N_sub, N_B>>,
                   OodMain \o <<N_exercises, SlugAV2, N_sub, N_Z>>} |-> Last(p)])

\* templates/blocked: the template already holds exercises/av2/sub/sub
TemplateBlocked ==
    TreeOf([p \in {OodMain \o <<N_pkg, N_A>>,
                   OodMain \o <<N_pkg, N_sub, N_B>>,
                   OodMain \o <<N_exercises, SlugAV2, N_sub, N_sub, N_Z>>} |-> Last(p)])

\* the templates installed when the program is run
NewTemplates ==
    [n \in {"exercise-java", "bare", "nested", "merge", "blocked"} |->
        IF n = "exercise-java" THEN TemplateJava
        ELSE IF n = "bare" THEN TemplateBare
        ELSE IF n = "nested" THEN TemplateNested
        ELSE IF n = "merge" THEN TemplateMerge
        ELSE TemplateBlocked]

NewInit ==
    /\ ParserIdle
    /\ PkgIdle
    /\ RaceIdle
    /\ exercises \in {[n \in {} |-> EmptyTree], [n \in {SlugA} |-> UserTree]}
    /\ templates = NewTemplates
    /\ sg_pc = "idle"
    /\ sg_slug = <<>>
    /\ sg_base = <<>>
    /\ sg_i = 0
    /\ sg_result = <<>>
    /\ ce_pc = "idle"
    /\ ce_slug = <<>>
    /\ ce_template = ""
    /\ ce_meta = EmptyDict
    /\ exits = <<>>
    /\ calls = 0

NewNext ==
    \/ \E slug \in NewSlugs, reg \in Registries, template \in DOMAIN NewTemplates :
            CmdNewRegistry(slug, reg, template)
                /\ UNCHANGED <<parserVars, pkgVars, raceVars>>
    \/ \E slug \in NewSlugs, title \in ArgTitles, tags \in ArgTags,
          template \in DOMAIN NewTemplates :
            CmdNewArgs(slug, title, tags, template)
                /\ UNCHANGED <<parserVars, pkgVars, raceVars>>
    \/ CeDestExists /\ UNCHANGED <<parserVars, pkgVars, raceVars>>
    \/ SgMatch /\ UNCHANGED <<parserVars, createVars, pkgVars, raceVars>>
    \/ SgLoop /\ UNCHANGED <<parserVars, createVars, pkgVars, raceVars>>
    \/ SgReturn /\ UNCHANGED <<parserVars, createVars, pkgVars, raceVars>>
    \/ CeReject /\ UNCHANGED <<parserVars, pkgVars, raceVars>>
    \/ CeDestFree /\ UNCHANGED <<parserVars, pkgVars, raceVars>>
    \/ CeCheckTemplate /\ UNCHANGED <<parserVars, pkgVars, raceVars>>
    \/ CeCopyTree /\ UNCHANGED <<parserVars, pkgVars, raceVars>>
    \/ CeRender /\ UNCHANGED <<parserVars, pkgVars, raceVars>>
    \/ CeMove /\ UNCHANGED <<parserVars, pkgVars, raceVars>>
    \/ CeBuildAndReturn /\ UNCHANGED <<parserVars, pkgVars, raceVars>>

SpecNew == NewInit /\ [][NewNext]_vars

\* ---------------------------------------------------- slug_to_pkg_segment
\* the characters slugs are made of: a lower-case letter, an upper-case
\* letter, a digit, the dash and a punctuation character
SlugChars == {"a", "B", "1", "-", "!"}

RECURSIVE StringsUpTo(_)
\* the strings over SlugChars of length at most n
StringsUpTo(n) ==
    IF n = 0 THEN {<<>>}
    ELSE LET shorter == StringsUpTo(n - 1)
         IN  shorter \cup {Append(t, c) : t \in shorter, c \in SlugChars}

\* "123-abc!"
Slug123abc == <<"1", "2", "3", "-", "a", "b", "c", "!">>

\* the slugs a segment is derived from
PkgInputs == StringsUpTo(MaxSlugLen) \cup {Slug123abc}

PkgInit ==
    /\ ParserIdle
    /\ SlugIdle
    /\ CreateIdle
    /\ RaceIdle
    /\ pk_pc = "call"
    /\ pk_slug \in PkgInputs
    /\ pk_seg = <<>>

\* lines 48-53: the call returns
PkCall ==
    /\ pk_pc = "call"
    /\ pk_seg' = slug_to_pkg_segment(pk_slug)
    /\ pk_pc' = "done"
    /\ UNCHANGED pk_slug

PkgNext == PkCall /\ UNCHANGED <<parserVars, slugVars, createVars, raceVars>>

SpecPkg == PkgInit /\ [][PkgNext]_vars

\* ------------------------------------------- concurrent create_exercise
\* Two invocations of the program run at the same time, each a process of
\* its own over the same file system.
RECURSIVE FirstFree(_, _)
\* lines 42-45
FirstFree(base, i) ==
    IF Exists(Versioned(base, i)) THEN FirstFree(base, i + 1)
    ELSE Versioned(base, i)

\* lines 34-45: the existence tests of the loop read entries that no
\* invocation creates while it runs, so the call is taken in one step
suggest_collision_free_slug(slug) ==
    FirstFree(BaseOf(LazyMatch(slug, 0)), StartOf(LazyMatch(slug, 0)))

\* what a step of a process leaves alone besides the file system
RcFrame ==
    UNCHANGED <<parserVars, pkgVars, createVars,
                sg_pc, sg_slug, sg_base, sg_i, sg_result>>

\* process p starts create_exercise(slug, meta, template)
RcStart(p, slug, meta, template) ==
    /\ inv_pc[p] = "idle"
    /\ inv_pc' = [inv_pc EXCEPT ![p] = "check_dest"]
    /\ inv_slug' = [inv_slug EXCEPT ![p] = slug]
    /\ inv_meta' = [inv_meta EXCEPT ![p] = meta]
    /\ inv_template' = [inv_template EXCEPT ![p] = template]
    /\ UNCHANGED <<exercises, inv_suggestion, inv_exit>>
    /\ RcFrame

\* lines 200-205: the destination exists
RcDestExists(p) ==
    /\ inv_pc[p] = "check_dest"
    /\ Exists(inv_slug[p])
    /\ inv_suggestion' =
        [inv_suggestion EXCEPT ![p] = suggest_collision_free_slug(inv_slug[p])]
    /\ inv_exit' = [inv_exit EXCEPT ![p] = ExitDestExists]
    /\ inv_pc' = [inv_pc EXCEPT ![p] = "ended"]
    /\ UNCHANGED <<exercises, inv_slug, inv_meta, inv_template>>
    /\ RcFrame

\* the destination is made by the step that finds it free
RcDestFree_AndCreate(p) ==
    /\ inv_pc[p] = "check_dest"
    /\ ~Exists(inv_slug[p])
    /\ exercises' = [n \in DOMAIN exercises \cup {inv_slug[p]} |->
                        IF n = inv_slug[p] THEN EmptyTree ELSE exercises[n]]
    /\ inv_pc' = [inv_pc EXCEPT ![p] = "check_template"]
    /\ UNCHANGED <<inv_slug, inv_meta, inv_template, inv_suggestion, inv_exit>>
    /\ RcFrame

\* line 201: the destination does not exist
RcDestFree(p) ==
    /\ inv_pc[p] = "check_dest"
    /\ ~Exists(inv_slug[p])
    /\ inv_pc' = [inv_pc EXCEPT ![p] = "check_template"]
    /\ UNCHANGED <<exercises, inv_slug, inv_meta, inv_template,
                   inv_suggestion, inv_exit>>
    /\ RcFrame

\* lines 207-210
RcCheckTemplate(p) ==
    /\ inv_pc[p] = "check_template"
    /\ IF inv_template[p] \in DOMAIN templates
       THEN /\ inv_pc' = [inv_pc EXCEPT ![p] = "copy"]
            /\ UNCHANGED inv_exit
       ELSE /\ inv_pc' = [inv_pc EXCEPT ![p] = "ended"]
            /\ inv_exit' = [inv_exit EXCEPT ![p] = ExitNoTemplate]
    /\ UNCHANGED <<exercises, inv_slug, inv_meta, inv_template, inv_suggestion>>
    /\ RcFrame

\* line 212: shutil.copytree makes the destination directory first and
\* raises when it exists
RcCopyTree(p) ==
    /\ inv_pc[p] = "copy"
    /\ IF Exists(inv_slug[p])
       THEN /\ inv_pc' = [inv_pc EXCEPT ![p] = "ended"]
            /\ inv_exit' = [inv_exit EXCEPT ![p] = ExitException]
            /\ UNCHANGED exercises
       ELSE /\ exercises' = [n \in DOMAIN exercises \cup {inv_slug[p]} |->
                                IF n = inv_slug[p] THEN templates[inv_template[p]]
                                ELSE exercises[n]]
            /\ inv_pc' = [inv_pc EXCEPT ![p] = "render"]
            /\ UNCHANGED inv_exit
    /\ UNCHANGED <<inv_slug, inv_meta, inv_template, inv_suggestion>>
    /\ RcFrame

\* lines 214-248
RcRender(p) ==
    /\ inv_pc[p] = "render"
    /\ exercises' = [exercises EXCEPT
                        ![inv_slug[p]] = RenderTree(@, inv_slug[p], inv_meta[p])]
    /\ inv_pc' = [inv_pc EXCEPT ![p] = "move"]
    /\ UNCHANGED <<inv_slug, inv_meta, inv_template, inv_suggestion, inv_exit>>
    /\ RcFrame

\* line 251
RcMove(p) ==
    /\ inv_pc[p] = "move"
    /\ \E o \in move_exercise_pkg_dirs(exercises[inv_slug[p]],
                                       slug_to_pkg_segment(inv_slug[p])) :
        /\ exercises' = [exercises EXCEPT ![inv_slug[p]] = o.tree]
        /\ IF o.raised
           THEN /\ inv_pc' = [inv_pc EXCEPT ![p] = "ended"]
                /\ inv_exit' = [inv_exit EXCEPT ![p] = ExitException]
           ELSE /\ inv_pc' = [inv_pc EXCEPT ![p] = "build"]
                /\ UNCHANGED inv_exit
    /\ UNCHANGED <<inv_slug, inv_meta, inv_template, inv_suggestion>>
    /\ RcFrame

\* lines 253-269, and the return to the shell with status 0
RcBuildAndReturn(p) ==
    /\ inv_pc[p] = "build"
    /\ exercises' = [exercises EXCEPT ![inv_slug[p]] = EnsureBuildFile(@)]
    /\ inv_pc' = [inv_pc EXCEPT ![p] = "ended"]
    /\ inv_exit' = [inv_exit EXCEPT ![p] = 0]
    /\ UNCHANGED <<inv_slug, inv_meta, inv_template, inv_suggestion>>
    /\ RcFrame

RaceInit ==
    /\ ParserIdle
    /\ PkgIdle
    /\ RaceIdle
    /\ exercises \in ExerciseSets
    /\ templates \in TemplateSets
    /\ ce_pc = "idle"
    /\ ce_slug = <<>>
    /\ ce_template = ""
    /\ ce_meta = EmptyDict
    /\ exits = <<>>
    /\ calls = 0
    /\ sg_pc = "idle"
    /\ sg_slug = <<>>
    /\ sg_base = <<>>
    /\ sg_i = 0
    /\ sg_result = <<>>

RaceNext ==
    \E p \in Procs :
        \/ \E slug \in CallSlugs, template \in CallTemplates :
                RcStart(p, slug, EmptyDict, template)
        \/ RcDestExists(p)
        \/ RcDestFree(p)
        \/ RcCheckTemplate(p)
        \/ RcCopyTree(p)
        \/ RcRender(p)
        \/ RcMove(p)
        \/ RcBuildAndReturn(p)

SpecRace == RaceInit /\ [][RaceNext]_vars

\* ================================================================ claims
\* indices of the lines of the document read so far that are not skipped
Live == {i \in 1..Len(doc) : ~IsSkipped(doc[i])}

\* ---------------------------------------------------------------------- C1
\* number of lines that start in column 0 with the two characters "- "
MarkerCount == Cardinality({i \in 1..Len(doc) : StartsWith(doc[i], Bullet)})

\* C1: when the parser returns, the number of Records equals the number of
\* top-level "- " markers of the document, markers without fields included.
C1_RecordPerMarker == pc = "done" => Len(items) = MarkerCount

\* ---------------------------------------------------------------------- C2
\* a line read as a continuation of the block scalar being collected, with
\* at least base_indent + 2 leading spaces
IsContinuationAt(i) == i \in Live /\ Indent(doc[i]) >= prompt_indent + 2

\* C2: a blank line between two continuation lines of a block scalar is in
\* the buffer as an empty string, between the entries of those two lines.
C2_BlankLineCaptured ==
    LET n == Len(doc)
    IN  (/\ pc = "loop"
         /\ collecting_prompt
         /\ ~current.isNone
         /\ n >= 3
         /\ IsContinuationAt(n)
         /\ Strip(doc[n - 1]) = <<>>
         /\ IsContinuationAt(n - 2))
        => /\ Len(prompt_lines) >= 3
           /\ prompt_lines[Len(prompt_lines) - 1] = <<>>
           /\ prompt_lines[Len(prompt_lines)] = Drop(doc[n], prompt_indent + 2)
           /\ prompt_lines[Len(prompt_lines) - 2] = Drop(doc[n - 2], prompt_indent + 2)

\* ---------------------------------------------------------------------- C3
\* C3: the entry appended for a continuation line is the line without its
\* first base_indent + 2 characters, all of which are spaces.
C3_OnlySpacesStripped ==
    [][(/\ pc = "loop"
        /\ pc' = "loop"
        /\ collecting_prompt
        /\ Len(doc') = Len(doc) + 1
        /\ ~IsSkipped(Last(doc'))
        /\ Indent(Last(doc')) > prompt_indent)
       => LET line == Last(doc')
              entry == Last(prompt_lines')
          IN  /\ Len(prompt_lines') = Len(prompt_lines) + 1
              /\ Len(line) - Len(entry) = prompt_indent + 2
              /\ entry = Drop(line, Len(line) - Len(entry))
              /\ \A i \in 1..(Len(line) - Len(entry)) : line[i] = " "]_vars

\* ---------------------------------------------------------------------- C4
\* the line that declared the block scalar being collected
BlockDeclIdx ==
    CHOOSE j \in Live :
        /\ Contains(doc[j], ":")
        /\ ValOf(doc[j]) = BlockMarker
        /\ \A k \in Live : k > j => ~(Contains(doc[k], ":") /\ ValOf(doc[k]) = BlockMarker)

\* C4: when a block scalar declared as "key: |" ends (at a line that is not
\* a continuation, or at end of input), the Record holds the collected text
\* as the Scalar of that key, and no other field was written by the block.
C4_BlockStoredUnderItsKey ==
    [][(/\ pc = "loop"
        /\ collecting_prompt
        /\ ~current.isNone
        /\ \/ pc' = "done"
           \/ /\ Len(doc') = Len(doc) + 1
              /\ ~IsSkipped(Last(doc'))
              /\ Indent(Last(doc')) <= prompt_indent)
       => LET key == KeyOf(doc[BlockDeclIdx])
              line == Last(doc')
              byLine == IF pc' = "done" THEN {K_tags}
                        ELSE IF IsNewItem(line) THEN {}
                        ELSE IF Contains(line, ":") THEN {KeyOf(line)}
                        ELSE {}
              rec == IF pc' = "done" \/ IsNewItem(line) THEN Last(items')
                     ELSE current'.fields
          IN  /\ key \in DOMAIN rec
              /\ key \notin byLine => rec[key] = Scalar(PromptValue(prompt_lines))
              /\ \A k \in DOMAIN rec \ ({key} \cup byLine) :
                    k \in DOMAIN current.fields /\ rec[k] = current.fields[k]]_vars

\* ---------------------------------------------------------------------- C5
\* C5: the parser never raises, whatever the document.
C5_NeverRaises == pc # "raised"

\* ---------------------------------------------------------------------- C6
\* C6: in the returned Document, every checklist field is a List.
C6_ChecklistIsList ==
    pc = "done" =>
        \A i \in 1..Len(items) :
            K_checklist \in DOMAIN items[i] => items[i][K_checklist].t = "List"

\* ---------------------------------------------------------------------- C7
\* positions that delimit the comma-separated pieces of s
TagCuts(s) == {0, Len(s) + 1} \cup {i \in 1..Len(s) : s[i] = ","}

\* positions of the characters of the piece that starts after cut a and
\* are not white space
TagBody(s, a) ==
    {i \in 1..Len(s) :
        /\ i > a
        /\ \A c \in TagCuts(s) : c > a => i < c
        /\ s[i] \notin Whitespace}

Min(S) == CHOOSE x \in S : \A y \in S : x <= y
Max(S) == CHOOSE x \in S : \A y \in S : x >= y

\* the list the claim describes: pieces between commas, trimmed, empty
\* pieces dropped, in order of position
ExpectedTags(s) ==
    LET starts == {a \in TagCuts(s) : TagBody(s, a) # {}}
        nth(j) == CHOOSE a \in starts :
                      Cardinality({x \in starts : x < a}) = j - 1
    IN  [j \in 1..Cardinality(starts) |->
            SubSeq(s, Min(TagBody(s, nth(j))), Max(TagBody(s, nth(j))))]

\* C7: when the parser returns, every tags field is the List of the trimmed,
\* non-empty comma-separated pieces of the Scalar that was parsed, in order.
C7_TagsNormalized ==
    [][(pc = "loop" /\ pc' = "done")
       => /\ \A i \in 1..Len(items') :
                K_tags \in DOMAIN items'[i] => items'[i][K_tags].t = "List"
          /\ \A i \in 1..Len(items) :
                K_tags \in DOMAIN items[i] =>
                    items'[i][K_tags].v = ExpectedTags(items[i][K_tags].v)
          /\ (Truthy(current) /\ K_tags \in DOMAIN current.fields) =>
                Last(items')[K_tags].v = ExpectedTags(current.fields[K_tags].v)]_vars

\* "a, b ,c," was parsed to [a, b, c]
C7_Witness ==
    /\ pc = "done"
    /\ Len(items) >= 1
    /\ doc[1] = LnItemTags
    /\ items[1][K_tags].t = "List"
    /\ items[1][K_tags].v = <<<<"a">>, <<"b">>, <<"c">>>>

\* ---------------------------------------------------------------------- C8
\* the checklist declaration in force: the last line read that is neither
\* skipped nor a bullet
ChecklistDeclIdx ==
    Max({j \in Live : ~StartsWith(Strip(doc[j]), Bullet)})

\* the text after the marker of a bullet line
TextAfterMarker(line) == SubSeq(line, Indent(line) + 3, Len(line))

\* the entries the claim describes for the lines read since the declaration
ExpectedChecklist ==
    LET after == {j \in Live : j > ChecklistDeclIdx}
        nth(n) == CHOOSE j \in after : Cardinality({x \in after : x < j}) = n - 1
    IN  [n \in 1..Cardinality(after) |-> TextAfterMarker(doc[nth(n)])]

\* the claim's test for a line after a declaration at indentation i
IsEntryLine(line, i) == Indent(line) >= i + 2 /\ StartsWith(Strip(line), Bullet)

\* a "checklist:" line of an open Record, read outside a block scalar
IsChecklistDecl(line) ==
    /\ ~IsSkipped(line)
    /\ ~IsNewItem(line)
    /\ Contains(line, ":")
    /\ KeyOf(line) = K_checklist
    /\ ValOf(line) # BlockMarker
    /\ ~(collecting_prompt /\ Indent(line) > prompt_indent)
    /\ ~current.isNone

ClaimDigits(k) ==
    IF k < 10 THEN <<DigitChars[k + 1]>>
    ELSE <<DigitChars[(k \div 10) + 1], DigitChars[(k % 10) + 1]>>

\* the number written by one or two digits
ClaimNumber(ds) ==
    IF Len(ds) = 1 THEN DigitVal(ds[1])
    ELSE 10 * DigitVal(ds[1]) + DigitVal(ds[2])

\* <base>-v<k>
ClaimName(base, k) == base \o <<"-", "v">> \o ClaimDigits(k)

\* lengths of the prefixes <base> for which the slug reads <base>-v<N>
VersionCuts(slug) ==
    {n \in 0..Len(slug) :
        /\ Len(slug) - n >= 3
        /\ slug[n + 1] = "-"
        /\ slug[n + 2] = "v"
        /\ \A j \in (n + 3)..Len(slug) : IsDigit(slug[j])}

\* a step of the call leaves the disk alone, and the returning step returns
\* the first free name
C9_Step ==
    /\ sg_pc \in {"start", "loop"} => exercises' = exercises
    /\ (sg_pc = "loop" /\ sg_pc' = "done") =>
        LET cuts == VersionCuts(sg_slug)
            base == IF cuts # {} THEN Take(sg_slug, Min(cuts)) ELSE sg_slug
            start == IF cuts # {}
                     THEN ClaimNumber(Drop(sg_slug, Min(cuts) + 2)) + 1
                     ELSE 2
            free == {k \in start..(start + Cardinality(DOMAIN exercises)) :
                        ClaimName(base, k) \notin DOMAIN exercises}
        IN  /\ sg_result' = ClaimName(base, Min(free))
            /\ sg_result' \notin DOMAIN exercises'
            /\ sg_result' # sg_slug

\* C9: the suggestion is <base>-v<k> for the smallest k >= start whose name
\* does not exist, with base and start = N + 1 taken from a slug of the form
\* <base>-v<N>, and base = slug, start = 2 otherwise; it does not exist, it is
\* not the slug, no step of the call changes the entries on disk, and the
\* call returns.
C9_SuggestedSlug ==
    /\ <>(sg_pc = "done")
    /\ [][C9_Step]_vars

\* "a-v9" was asked for while "a-v10" existed, and "a-v11" was suggested
C9_Witness ==
    /\ sg_pc = "done"
    /\ sg_slug = SlugAv9
    /\ Versioned(SlugA, 10) \in DOMAIN exercises
    /\ sg_result = <<"a", "-", "v", "1", "1">>

\* --------------------------------------------------------------------- C10
\* the positions of create_exercise up to and including both checks
PreWritePcs == {"check_dest", "suggest", "check_template"}

\* what a step does up to and including the checks
C10_Step ==
    /\ ce_pc \in PreWritePcs =>
        exercises' = exercises /\ templates' = templates
    /\ ce_pc' \in PreWritePcs => ce_pc \in PreWritePcs \cup {"idle"}
    /\ (ce_pc = "check_dest" /\ ce_slug \in DOMAIN exercises) =>
        ce_pc' = "suggest"
    /\ ce_pc = "suggest" =>
        \/ ce_pc' = "suggest"
        \/ /\ ce_pc' = "idle"
           /\ Len(exits') = Len(exits) + 1
           /\ Last(exits') # 0
    /\ (ce_pc = "check_template" /\ ce_template \notin DOMAIN templates) =>
        /\ ce_pc' = "idle"
        /\ Len(exits') = Len(exits) + 1
        /\ Last(exits') # 0

\* C10: create_exercise enters its checks only when it starts, no step up to
\* and including the checks changes the file system, an existing destination
\* leads through the suggestion to a non-zero exit, and a missing template
\* leads to a non-zero exit; so on both paths nothing on disk has changed
\* when the invocation ends, and it does end.
C10_RejectBeforeWrite ==
    /\ (ce_pc \in PreWritePcs) ~> (ce_pc \notin PreWritePcs)
    /\ [][C10_Step]_vars

\* a slug was generated, asked for again and rejected
C10_Witness ==
    /\ ce_pc = "idle"
    /\ exits = <<0, 2>>
    /\ ce_slug \in DOMAIN exercises
    /\ P_build \in DOMAIN exercises[ce_slug]

\* --------------------------------------------------------------------- C11
\* the slug capitalized word by word: the words between dashes, each with
\* its first letter in upper case, separated by spaces
ClaimTitle(slug) ==
    [i \in 1..Len(slug) |->
        IF slug[i] = "-" THEN " "
        ELSE IF i = 1 \/ slug[i - 1] = "-" THEN UpperChar(slug[i])
        ELSE slug[i]]

\* "${TITLE}"
TitlePlaceholder == <<"$", "{", "T", "I", "T", "L", "E", "}">>

\* C11: when the Record given to create_exercise has no title field, the
\* rendering step leaves each recognized text file as the template file with
\* every ${TITLE} placeholder replaced by the slug capitalized word by word
\* (the other tokens replaced by their own values).
C11_TitleFromSlug ==
    [][(ce_pc = "render" /\ ce_pc' = "move" /\ K_title \notin DOMAIN ce_meta)
       => \A p \in DOMAIN exercises[ce_slug] :
            (~exercises[ce_slug][p].isDir /\ is_text_file(p)) =>
                exercises'[ce_slug][p].data =
                    RenderContent(
                        Replace(exercises[ce_slug][p].data, TitlePlaceholder,
                                ClaimTitle(ce_slug)),
                        ce_slug, ce_meta)]_vars

\* --------------------------------------------------------------------- C12
RECURSIVE ClaimSubst(_, _)
\* s with every occurrence of the left side of a pair replaced by its right
\* side, in one pass from left to right over s
ClaimSubst(s, pairs) ==
    IF s = <<>> THEN <<>>
    ELSE LET hits == {i \in 1..Len(pairs) : StartsWith(s, pairs[i][1])}
         IN  IF hits # {}
             THEN pairs[Min(hits)][2]
                     \o ClaimSubst(Drop(s, Len(pairs[Min(hits)][1])), pairs)
             ELSE <<s[1]>> \o ClaimSubst(Tail(s), pairs)

\* the placeholders with their values, and the sentinel with the package
ClaimPairs(slug, meta) ==
    LET t == Tokens(slug, meta)
    IN  [i \in 1..Len(t) |-> <<<<"$", "{">> \o t[i][1] \o <<"}">>, t[i][2]>>]
        \o <<<<Sentinel, PkgPrefix \o slug_to_pkg_segment(slug)>>>>

\* C12: the rendering step leaves each recognized text file as the template
\* file with each placeholder and each sentinel of the template file replaced
\* by its value; a placeholder or the sentinel that occurs only inside a
\* substituted value is left as it is.
C12_LiteralSubstitution ==
    [][(ce_pc = "render" /\ ce_pc' = "move")
       => \A p \in DOMAIN exercises[ce_slug] :
            (~exercises[ce_slug][p].isDir /\ is_text_file(p)) =>
                exercises'[ce_slug][p].data =
                    ClaimSubst(exercises[ce_slug][p].data,
                               ClaimPairs(ce_slug, ce_meta))]_vars

\* --------------------------------------------------------------------- C13
C13_Lower == {"a", "b", "c", "d", "e", "f", "g", "h", "i", "j", "k", "l", "m",
              "n", "o", "p", "q", "r", "s", "t", "u", "v", "w", "x", "y", "z"}
C13_Upper == {"A", "B", "C", "D", "E", "F", "G", "H", "I", "J", "K", "L", "M",
              "N", "O", "P", "Q", "R", "S", "T", "U", "V", "W", "X", "Y", "Z"}
C13_Digit == {"0", "1", "2", "3", "4", "5", "6", "7", "8", "9"}

\* the positions of the letters and digits of a slug
C13_Kept(slug) ==
    {i \in 1..Len(slug) : slug[i] \in C13_Lower \cup C13_Upper \cup C13_Digit}

\* the i-th smallest element of a set of positions
C13_Nth(S, i) == CHOOSE x \in S : Cardinality({y \in S : y < x}) = i - 1

\* the same letter whatever its case
C13_SameLetter(c, d) ==
    \/ c = d
    \/ \E j \in 1..26 : {c, d} = {LowerChars[j], UpperChars[j]}

\* C13: the segment returned for a slug is the slug's letters and digits in
\* order, after the one filler letter x when there are none or the first is
\* not a letter, all in lower case; so it is never empty, starts with a
\* lower-case letter and holds lower-case letters and digits only.
C13_PkgSegment ==
    pk_pc = "done" =>
        LET kept == C13_Kept(pk_slug)
            n == Cardinality(kept)
            fill == IF n = 0 \/ pk_slug[C13_Nth(kept, 1)] \in C13_Digit
                    THEN 1 ELSE 0
        IN  /\ Len(pk_seg) = n + fill
            /\ fill = 1 => pk_seg[1] = "x"
            /\ \A i \in 1..n :
                    /\ C13_SameLetter(pk_seg[i + fill], pk_slug[C13_Nth(kept, i)])
                    /\ pk_seg[i + fill] \in C13_Lower \cup C13_Digit
            /\ Len(pk_seg) >= 1
            /\ pk_seg[1] \in C13_Lower
            /\ \A i \in 1..Len(pk_seg) : pk_seg[i] \in C13_Lower \cup C13_Digit

\* the segment of "123-abc!" is "x123abc"
C13_Witness ==
    /\ pk_pc = "done"
    /\ pk_slug = Slug123abc
    /\ pk_seg = <<"x", "1", "2", "3", "a", "b", "c">>

\* --------------------------------------------------------------------- C14
\* the names of the package directories exercises/<segment> of a tree
PackagesOf(tree) ==
    {p[Len(p)] : p \in {q \in DOMAIN tree :
                            /\ Len(q) >= 2
                            /\ q[Len(q) - 1] = N_exercises
                            /\ tree[q].isDir}}

\* C14: two exercises generated under distinct slugs never hold a package
\* directory exercises/<segment> of the same name.
C14_UniquePackages ==
    ce_pc = "idle" =>
        \A n1, n2 \in DOMAIN exercises :
            n1 # n2 => PackagesOf(exercises[n1]) \cap PackagesOf(exercises[n2]) = {}

\* --------------------------------------------------------------------- C15
\* what the relocation step of an invocation does
C15_Step ==
    (ce_pc = "move" /\ ce_pc' # "move") =>
        LET tree == exercises[ce_slug]
            after == exercises'[ce_slug]
            seg == slug_to_pkg_segment(ce_slug)
        IN  /\ ce_pc' = "build"
            /\ \A r \in PkgRoots(tree) :
                \A p \in DOMAIN tree :
                    (IsPrefix(r, p) /\ ~tree[p].isDir) =>
                        /\ NewDir(r, seg) \o Drop(p, Len(r)) \in DOMAIN after
                        /\ after[NewDir(r, seg) \o Drop(p, Len(r))] = tree[p]
            /\ PkgRoots(after) = {}

\* C15: the relocation step never ends the invocation; after it every file
\* that was below a placeholder directory src/<variant>/java/com/learn/ood/
\* EXERCISE_PKG, at any depth, is at the same relative path below the sibling
\* exercises/<segment>, and no placeholder directory is left.
C15_Relocation == [][C15_Step]_vars

\* --------------------------------------------------------------------- C16
\* the positions of an invocation after the existence check found the
\* destination free
PastCheck == {"check_template", "copy", "render", "move", "build"}

\* what a step of process p does with respect to the existence check
C16_Step(p) ==
    /\ (inv_pc[p] = "check_dest" /\ inv_pc'[p] = "check_template") =>
        /\ exercises' = exercises
        /\ inv_slug[p] \notin DOMAIN exercises
    /\ (inv_pc[p] = "check_dest" /\ inv_pc'[p] = "ended") =>
        /\ inv_exit'[p] = ExitDestExists
        /\ inv_slug[p] \in DOMAIN exercises
    /\ (inv_pc[p] \in PastCheck /\ inv_pc'[p] = "ended") =>
        inv_exit'[p] # ExitDestExists
    /\ (inv_pc'[p] # inv_pc[p]
            /\ inv_slug[p] \notin DOMAIN exercises
            /\ inv_slug[p] \in DOMAIN exercises') =>
        inv_pc[p] = "copy"

\* C16: the existence check of an invocation and the creation of its
\* destination are separate steps: the check writes nothing, only the copy
\* step creates the destination, and an invocation that found the
\* destination free is never rejected as a collision afterwards, whatever the
\* other invocation has done since. So two invocations for one slug can both
\* pass the check and both go on to act on the one destination.
C16_CheckThenCreate == [][\A p \in Procs : C16_Step(p)]_vars

\* both invocations were for the same slug with an installed template, both
\* found the destination free, one generated the exercise and the copy of
\* the other raised on the destination it found in place
C16_Witness ==
    /\ inv_pc[1] = "ended"
    /\ inv_pc[2] = "ended"
    /\ inv_slug[1] = inv_slug[2]
    /\ inv_template[1] \in DOMAIN templates
    /\ inv_template[2] \in DOMAIN templates
    /\ inv_exit[1] = 0
    /\ inv_exit[2] = ExitException
    /\ inv_suggestion[2] = <<>>

\* --------------------------------------------------------------------- C17
\* the line read by the step
C17_Line == doc'[Len(doc')]

\* the line ends the block scalar or the checklist being collected
C17_Ends(line) ==
    /\ ~IsSkipped(line)
    /\ \/ collecting_prompt /\ Indent(line) <= prompt_indent
       \/ /\ checklist_mode
          /\ ~(Indent(line) >= checklist_indent /\ StartsWith(Strip(line), Bullet))

\* the parser back in Scanning, the block scalar stored
C17_Scanning ==
    [ParserState EXCEPT
        !.current = IF collecting_prompt /\ ~current.isNone
                    THEN Some(Put(current.fields, K_prompt,
                                  Scalar(PromptValue(prompt_lines))))
                    ELSE current,
        !.collecting_prompt = FALSE,
        !.prompt_lines = <<>>,
        !.prompt_indent = 0,
        !.checklist_mode = FALSE,
        !.checklist_indent = 0]

\* a "key: value" line that neither declares a block scalar nor a checklist
C17_PlainPair(line) ==
    /\ ~IsNewItem(line)
    /\ Contains(line, ":")
    /\ ValOf(line) # BlockMarker
    /\ KeyOf(line) # K_checklist

C17_Step ==
    (pc = "loop" /\ Len(doc') = Len(doc) + 1 /\ C17_Ends(C17_Line)) =>
        /\ IsNewItem(C17_Line) =>
            /\ pc' = "loop"
            /\ current' = OpenRecord(C17_Line)
            /\ items' = FinalizeCurrent(items, C17_Scanning.current)
        /\ (C17_PlainPair(C17_Line) /\ ~current.isNone) =>
            /\ pc' = "loop"
            /\ items' = items
            /\ ~current'.isNone
            /\ KeyOf(C17_Line) \in DOMAIN current'.fields
            /\ current'.fields[KeyOf(C17_Line)] = Scalar(ValOf(C17_Line))
        /\ LET st == LoopBody(C17_Scanning, C17_Line)
           IN  /\ (pc' = "raised") = st.raised
               /\ items' = st.items
               /\ current' = st.current
               /\ collecting_prompt' = st.collecting_prompt
               /\ prompt_lines' = st.prompt_lines
               /\ prompt_indent' = st.prompt_indent
               /\ checklist_mode' = st.checklist_mode
               /\ checklist_indent' = st.checklist_indent

\* C17: the line that ends a block scalar or a checklist is handled, in the
\* step that reads it, as the same line is handled in Scanning: a top-level
\* marker line opens a new record after the record in progress is closed, a
\* "key: value" line is stored in the record in progress, and the step
\* leaves the parser where Scanning would have left it.
C17_TerminatorReprocessed == [][C17_Step]_vars

\* a block scalar of a record was ended by "  title: T", now a field of
\* the same record next to the stored block
C17_Witness ==
    /\ pc = "loop"
    /\ Len(doc) >= 4
    /\ doc[Len(doc) - 2] = LnPromptBlock
    /\ doc[Len(doc) - 1] = LnCont4
    /\ doc[Len(doc)] = LnTitle
    /\ ~collecting_prompt
    /\ ~current.isNone
    /\ K_title \in DOMAIN current.fields
    /\ current.fields[K_title] = Scalar(<<"T">>)
    /\ K_prompt \in DOMAIN current.fields
    /\ current.fields[K_prompt] = Scalar(<<"x", " ", "y">>)

\* --------------------------------------------------------------------- C18
\* the records returned when the marker line "- " follows the lines read
\* and the input ends after it: the marker ends what is being collected and
\* closes the record in progress, and the record it opens is empty and is
\* not returned
C18_AfterTerminator ==
    LET st == LoopBody(ParserState, LnItemBare)
    IN  Normalize(FinalizeCurrent(st.items, st.current))

C18_Step ==
    (pc = "loop" /\ pc' = "done" /\ (collecting_prompt \/ checklist_mode)) =>
        /\ items' = C18_AfterTerminator
        /\ ~current.isNone =>
            /\ Len(items') = Len(items) + 1
            /\ \A i \in 1..Len(items) : items'[i] = NormalizeRecord(items[i])
            /\ collecting_prompt =>
                /\ K_prompt \in DOMAIN Last(items')
                /\ Last(items')[K_prompt] = Scalar(PromptValue(prompt_lines))
            /\ checklist_mode =>
                /\ K_checklist \in DOMAIN Last(items')
                /\ Last(items')[K_checklist] = current.fields[K_checklist]
            /\ \A k \in DOMAIN current.fields \ {K_prompt, K_tags} :
                /\ k \in DOMAIN Last(items')
                /\ Last(items')[k] = current.fields[k]

\* C18: when the input ends while a block scalar or a checklist is being
\* collected, the records returned are those returned when a terminating
\* line follows; with a record in progress, that record is the last one
\* returned, it holds the joined buffer of the block scalar, every entry of
\* the checklist and its other fields, and the records before it are kept.
C18_EndOfInputFlush == [][C18_Step]_vars

\* the input ended in a block scalar with two collected lines, returned as
\* the field of the last record
C18_Witness ==
    /\ pc = "done"
    /\ collecting_prompt
    /\ Len(prompt_lines) = 2
    /\ items # <<>>
    /\ K_prompt \in DOMAIN Last(items)
    /\ Last(items)[K_prompt] = Scalar(PromptValue(prompt_lines))
    /\ Len(Last(items)[K_prompt].v) > Len(prompt_lines[1])

\* --------------------------------------------------------------------- C19
\* the three states of the parser, read from the two flags
C19_Scanning == ~collecting_prompt /\ ~checklist_mode
C19_CollectingBlockScalar == collecting_prompt /\ ~checklist_mode
C19_CollectingList == ~collecting_prompt /\ checklist_mode

\* C19: whenever the loop is about to read a line (or the end of input),
\* at most one of collecting_prompt and checklist_mode is set: the parser
\* is in exactly one of Scanning, CollectingBlockScalar and CollectingList.
C19_OneFlag ==
    pc = "loop" =>
        /\ ~(collecting_prompt /\ checklist_mode)
        /\ \/ C19_Scanning
           \/ C19_CollectingBlockScalar
           \/ C19_CollectingList

\* a checklist with an entry was ended by the declaration of a block
\* scalar: the parser went from CollectingList to CollectingBlockScalar
C19_Witness ==
    /\ pc = "loop"
    /\ Len(doc) >= 3
    /\ doc[Len(doc) - 2] = LnChecklist
    /\ doc[Len(doc) - 1] = LnBullet4
    /\ doc[Len(doc)] = LnPromptBlock
    /\ ~current.isNone
    /\ K_checklist \in DOMAIN current.fields
    /\ current.fields[K_checklist].t = "List"
    /\ Len(current.fields[K_checklist].v) = 1
    /\ C19_CollectingBlockScalar

\* --------------------------------------------------------------------- C20
\* the line read by the step
C20_Line == doc'[Len(doc')]

\* a non-comment line at indentation 0 that begins with "- "
C20_TopLevelMarker(line) ==
    /\ Len(line) >= 2
    /\ line[1] = "-"
    /\ line[2] = " "

\* the record in progress as it is closed: with its block scalar stored
C20_Closed ==
    IF collecting_prompt /\ ~current.isNone
    THEN Some(Put(current.fields, K_prompt, Scalar(PromptValue(prompt_lines))))
    ELSE current

C20_Step ==
    (pc = "loop" /\ Len(doc') = Len(doc) + 1 /\ C20_TopLevelMarker(C20_Line)) =>
        /\ pc' = "loop"
        /\ ~collecting_prompt'
        /\ ~checklist_mode'
        /\ prompt_lines' = <<>>
        /\ ~current'.isNone
        /\ current' = OpenRecord(C20_Line)
        /\ Cardinality(DOMAIN current'.fields) <= 1
        /\ \A i \in 1..Len(items) : items'[i] = items[i]
        /\ IF DOMAIN C20_Closed.fields # {}
           THEN items' = Append(items, C20_Closed.fields)
           ELSE items' = items

\* C20: in every parser state a line at indentation 0 that begins with
\* "- " ends the block scalar or checklist being collected and opens a new
\* record: the buffer and the checklist of the record in progress get nothing
\* from the line, that record is closed as it was, and the record now in
\* progress is a fresh one holding at most the pair written on the line.
C20_MarkerOpensRecord == [][C20_Step]_vars

\* "- tags: a, b ,c," ended a checklist with one entry: the record of the
\* checklist was closed with that one entry and the record in progress
\* holds the tags only
C20_Witness ==
    /\ pc = "loop"
    /\ Len(doc) >= 3
    /\ doc[Len(doc) - 2] = LnChecklist
    /\ doc[Len(doc) - 1] = LnBullet4
    /\ doc[Len(doc)] = LnItemTags
    /\ items # <<>>
    /\ K_checklist \in DOMAIN Last(items)
    /\ Last(items)[K_checklist] = List(<<<<"b">>>>)
    /\ ~checklist_mode
    /\ DOMAIN current.fields = {K_tags}

====
